---------------------------- MODULE Spec2Model ----------------------------
(***************************************************************************)
(* ValutaTrade Hub: the rate cache (core/usecases.py get_rate) and the     *)
(* multi-source refresh pipeline (parser_service/updater.py run_update,    *)
(* parser_service/storage.py), which share the file data/rates.json.       *)
(*                                                                         *)
(* Strings are sequences of one-character strings, so that strip(),        *)
(* upper(), f"{a}_{b}" and split("_", 1) are computed, not assumed.        *)
(* Numbers are exact fractions <<n, d>> with d > 0 in lowest terms;        *)
(* float(x) of a number is the number itself (binary rounding is not       *)
(* modelled), and the ".8f" / ",.2f" formats are computed by long          *)
(* division.  The process is single-threaded: one command runs to          *)
(* completion before the next one starts; only the clock moves meanwhile.  *)
(***************************************************************************)
EXTENDS Integers, Sequences, FiniteSets, TLC

VARIABLES
    now,          \* wall clock, whole seconds
    ratesFile,    \* data/rates.json, the JSON document as a record
    historyFile,  \* data/exchange_rates.json, the JSON array
    pc,           \* position of the command loop / of run_update
    res,          \* the get_rate call just made: arguments, result
    upd,          \* run_update's locals, and the storage calls it has made
    fetched,      \* what each client attempted so far in this run answered
    pre,          \* the files as they were when the command started
    usersFile,      \* data/users.json, the JSON array
    portfoliosFile, \* data/portfolios.json, the JSON array
    current_user,   \* usecases._current_user of the process at the prompt
    trade,          \* the buy_currency / sell_currency call just made
    procs           \* two more processes on the same files, step by step

\* The accounts side of the state, which the rate commands leave alone.
accounts == <<usersFile, portfoliosFile, current_user, trade, procs>>

vars == <<now, ratesFile, historyFile, pc, res, upd, fetched, pre,
          usersFile, portfoliosFile, current_user, trade, procs>>

-----------------------------------------------------------------------------
(* Bounds of the model: the clock stops after MaxTicks steps of one TTL     *)
(* each, the history file holds at most MaxHistory records, and no wallet   *)
(* holds more than MaxBalance.                                              *)

MaxTicks == 2
MaxHistory == 3
MaxBalance == 3

-----------------------------------------------------------------------------
(* Strings *)

LowerChars ==
    <<"a","b","c","d","e","f","g","h","i","j","k","l","m",
      "n","o","p","q","r","s","t","u","v","w","x","y","z">>

UpperChars ==
    <<"A","B","C","D","E","F","G","H","I","J","K","L","M",
      "N","O","P","Q","R","S","T","U","V","W","X","Y","Z">>

Whitespace == {" ", "\t", "\n"}

UpperChar(c) ==
    IF \E i \in 1..Len(LowerChars) : LowerChars[i] = c
    THEN UpperChars[CHOOSE i \in 1..Len(LowerChars) : LowerChars[i] = c]
    ELSE c

\* str.upper()
Upper(s) == [i \in 1..Len(s) |-> UpperChar(s[i])]

RECURSIVE LStrip(_)
LStrip(s) ==
    IF s # <<>> /\ Head(s) \in Whitespace THEN LStrip(Tail(s)) ELSE s

RECURSIVE RStrip(_)
RStrip(s) ==
    IF s # <<>> /\ s[Len(s)] \in Whitespace
    THEN RStrip(SubSeq(s, 1, Len(s) - 1))
    ELSE s

\* str.strip()
Strip(s) == RStrip(LStrip(s))

\* f"{a}_{b}"
PairKey(a, b) == a \o <<"_">> \o b

\* A Python value handed to a function: a str, or something that is not one.
StrVal(s) == [type |-> "str", val |-> s]
NoneVal == [type |-> "NoneType", val |-> <<>>]

\* isinstance(x, str) and x.strip()
IsNonBlankStr(x) == x.type = "str" /\ Strip(x.val) # <<>>

-----------------------------------------------------------------------------
(* Numbers: fractions in lowest terms *)

RECURSIVE GCD(_, _)
GCD(a, b) == IF b = 0 THEN a ELSE GCD(b, a % b)

Abs(x) == IF x < 0 THEN -x ELSE x

Frac(n, d) ==
    LET g == GCD(Abs(n), Abs(d))
        s == IF d < 0 THEN -1 ELSE 1
    IN  <<(s * n) \div g, (s * d) \div g>>

\* 1.0 / x, for x # 0
Inverse(x) == Frac(x[2], x[1])

\* float(x) > 0
IsPositive(x) == x[1] > 0

\* nan, the float that is neither a fraction nor an infinity
NaN == <<0, 0>>
IsNaN(x) == x = NaN

NaNVal == [type |-> "float", val |-> NaN]

\* float(x) <= 0: every comparison with nan is False
IsNotPositive(a) == ~IsNaN(a) /\ a[1] <= 0

\* isinstance(x, (int, float))
IsNumber(x) == x.type \in {"int", "float"}

\* The digits after the point, by long division: `places` digits of r / d.
RECURSIVE FracDigits(_, _, _, _)
FracDigits(r, d, places, acc) ==
    IF places = 0 THEN <<acc, r>>
    ELSE FracDigits((r * 10) % d, d, places - 1, acc * 10 + ((r * 10) \div d))

RECURSIVE Pow10(_)
Pow10(k) == IF k = 0 THEN 1 ELSE 10 * Pow10(k - 1)

\* format(x, ".<places>f") of a positive number: the integer part and the
\* fraction digits (as a number below 10^places), rounded half to even.
Format(x, places) ==
    LET q   == x[1] \div x[2]
        fr  == FracDigits(x[1] % x[2], x[2], places, 0)
        rem  == fr[2]
        last == IF places = 0 THEN q ELSE fr[1]
        up  == \/ 2 * rem > x[2]
               \/ (2 * rem = x[2] /\ last % 2 = 1)
        f   == IF up THEN fr[1] + 1 ELSE fr[1]
    IN  IF f = Pow10(places)
        THEN [int |-> q + 1, frac |-> 0]
        ELSE [int |-> q, frac |-> f]

-----------------------------------------------------------------------------
(* Timestamps: the instant, and how the ISO string spells its zone *)

\* datetime.now().isoformat(): naive local time
NaiveIso(t) == [t |-> t, tz |-> "naive"]

\* An optional value: <<>> for an absent key, <<v>> for a present one.
None == <<>>
Some(v) == <<v>>

-----------------------------------------------------------------------------
(* core/currencies.py *)

sUSD == <<"U","S","D">>
sEUR == <<"E","U","R">>
sBTC == <<"B","T","C">>
sETH == <<"E","T","H">>
sRUB == <<"R","U","B">>

_CURRENCY_REGISTRY == {sUSD, sEUR, sBTC, sETH}

\* get_currency(code): the registry entry, or CurrencyNotFoundError
get_currency(code) ==
    IF ~IsNonBlankStr(code) THEN "CurrencyNotFoundError"
    ELSE IF Upper(Strip(code.val)) \notin _CURRENCY_REGISTRY
         THEN "CurrencyNotFoundError"
         ELSE "ok"

-----------------------------------------------------------------------------
(* data/rates.json.  Its top-level keys are the pair keys written by       *)
(* get_rate ("top": pair key -> {rate, updated_at}), "source" and          *)
(* "last_refresh" written by get_rate, and "pairs" and "last_refresh"      *)
(* written by save_snapshot.  A pair key is upper-case, so it is never one *)
(* of the lower-case keys "pairs", "source", "last_refresh".               *)

NoFile ==
    [exists |-> FALSE, top |-> <<>>, pairs |-> None,
     source |-> None, last_refresh |-> None]

EmptyDoc == [NoFile EXCEPT !.exists = TRUE]

\* rates = json.load(f) if the file exists else {}
LoadRates(file) == IF file.exists THEN file ELSE EmptyDoc

\* dict.get / dict assignment on the pair keys of a dict
HasKey(dict, k) == k \in DOMAIN dict
Put(dict, k, v) == [x \in (DOMAIN dict) \cup {k} |-> IF x = k THEN v ELSE dict[x]]

-----------------------------------------------------------------------------
(* core/usecases.py get_rate *)

max_age == 300

\* (mutant) < for <=
_is_fresh_Strict(updated_at, t) ==
    CASE updated_at.tz = "malformed" -> "stale"
      [] updated_at.tz = "naive" ->
            IF (t - updated_at.t) < max_age THEN "fresh" ELSE "stale"
      [] OTHER -> "TypeError"

\* (mutant) the subtraction the wrong way round: ts - now
_is_fresh_Reversed(updated_at, t) ==
    CASE updated_at.tz = "malformed" -> "stale"
      [] updated_at.tz = "naive" ->
            IF (updated_at.t - t) <= max_age THEN "fresh" ELSE "stale"
      [] OTHER -> "TypeError"

\* _is_fresh(updated_at_iso): "fresh" / "stale", or "TypeError" when the parsed
\* timestamp is timezone-aware and is subtracted from the naive now.
_is_fresh(updated_at, t) ==
    CASE updated_at.tz = "malformed" -> "stale"
      [] updated_at.tz = "naive" ->
            IF (t - updated_at.t) <= max_age THEN "fresh" ELSE "stale"
      [] OTHER -> "TypeError"

exchange_rates_stub ==
    (PairKey(sEUR, sUSD) :> Frac(10786, 10000)) @@
    (PairKey(sBTC, sUSD) :> Frac(5933721, 100)) @@
    (PairKey(sRUB, sUSD) :> Frac(1016, 100000)) @@
    (PairKey(sETH, sUSD) :> Frac(3720, 1))

\* (mutant) a pair the table lacks is quoted at 1.0
_get_from_stub_Default(frm_code, to_code) ==
    IF HasKey(exchange_rates_stub, PairKey(frm_code, to_code))
    THEN Some(exchange_rates_stub[PairKey(frm_code, to_code)])
    ELSE IF HasKey(exchange_rates_stub, PairKey(to_code, frm_code))
         THEN Some(Inverse(exchange_rates_stub[PairKey(to_code, frm_code)]))
         ELSE Some(Frac(1, 1))

\* _get_from_stub(frm_code, to_code): <<rate>> or None
_get_from_stub(frm_code, to_code) ==
    IF HasKey(exchange_rates_stub, PairKey(frm_code, to_code))
    THEN Some(exchange_rates_stub[PairKey(frm_code, to_code)])
    ELSE IF /\ HasKey(exchange_rates_stub, PairKey(to_code, frm_code))
            /\ IsPositive(exchange_rates_stub[PairKey(to_code, frm_code)])
         THEN Some(Inverse(exchange_rates_stub[PairKey(to_code, frm_code)]))
         ELSE None

\* The text get_rate returns: the rate as ".8f", the time of the entry to the
\* second, the reverse rate as ",.2f".
RateMessage(rate, t) ==
    Some([rate |-> Format(rate, 8), updated |-> t,
          reverse |-> Format(Inverse(rate), 2)])

NoResult ==
    [frm |-> NoneVal, to |-> NoneVal, outcome |-> "none",
     ret |-> None, read |-> FALSE]

\* The outcome of get_rate(from_currency, to_currency) on the stored file at
\* time t: what is raised or returned, whether the file was read, and the file
\* afterwards.  The entries of the file are the ones this program wrote, so
\* the isinstance checks on a present entry hold and only rate > 0 and the
\* freshness of updated_at are decided here.
get_rate(from_currency, to_currency, file, t) ==
    IF ~IsNonBlankStr(from_currency) \/ ~IsNonBlankStr(to_currency)
    THEN [outcome |-> "ValueError", ret |-> None, read |-> FALSE, file |-> file]
    ELSE
    LET frm       == Upper(Strip(from_currency.val))
        to        == Upper(Strip(to_currency.val))
        pair_key  == PairKey(frm, to)
        rates     == LoadRates(file)
        cached    == HasKey(rates.top, pair_key)
        pair_data == rates.top[pair_key]
        typed     == cached /\ IsPositive(pair_data.rate)
        fresh     == IF typed THEN _is_fresh(pair_data.updated_at, t) ELSE "stale"
        stub_rate == _get_from_stub(frm, to)
    IN  CASE fresh = "fresh" ->
               [outcome |-> "ok",
                ret     |-> RateMessage(pair_data.rate, pair_data.updated_at.t),
                read    |-> TRUE,
                file    |-> file]
          [] fresh = "TypeError" ->
               [outcome |-> "TypeError", ret |-> None, read |-> TRUE, file |-> file]
          [] fresh = "stale" /\ stub_rate = None ->
               [outcome |-> "ValueError", ret |-> None, read |-> TRUE, file |-> file]
          [] OTHER ->
               [outcome |-> "ok",
                ret     |-> RateMessage(stub_rate[1], t),
                read    |-> TRUE,
                file    |-> [rates EXCEPT
                               !.top = Put(rates.top, pair_key,
                                           [rate |-> stub_rate[1],
                                            updated_at |-> NaiveIso(t)]),
                               !.source = Some("Stub"),
                               !.last_refresh = Some(NaiveIso(t))]]

\* The argument pairs a caller passes to get_rate: a direct stub pair (to be
\* stripped and upper-cased), an inverse stub pair with a code that is not in
\* the registry, a currency against itself, a pair the stub lacks in both
\* directions, a blank code and a value that is no string.
RateCalls ==
    { <<StrVal(<<" ","e","u","r"," ">>), StrVal(<<"u","s","d">>)>>,
      <<StrVal(sUSD), StrVal(sRUB)>>,
      <<StrVal(sUSD), StrVal(sUSD)>>,
      <<StrVal(sBTC), StrVal(sEUR)>>,
      <<StrVal(<<" ">>), StrVal(sUSD)>>,
      <<NoneVal, StrVal(sUSD)>> }

-----------------------------------------------------------------------------
(* parser_service/updater.py *)

\* utc_now_iso(): UTC, whole seconds, "Z" suffix
utc_now_iso(t) == [t |-> t, tz |-> "Z"]

\* (mutant) <= for <
IsoLess_OrEqual(a, b) == a.t <= b.t

\* a < b on two strings written by utc_now_iso (same width, same suffix)
IsoLess(a, b) == a.t < b.t

\* A value a client hands back as a rate: a number or something else.
NumVal(n) == [type |-> "float", val |-> Frac(n, 1)]
TextVal == [type |-> "str", val |-> Frac(0, 1)]

\* not (not isinstance(rate, (int, float)) or float(rate) <= 0)
IsValidRate(rate) == IsNumber(rate) /\ ~IsNotPositive(rate.val)

\* The index of the first "_" of s, or 0
RECURSIVE FindUnderscore(_, _)
FindUnderscore(s, i) ==
    IF i > Len(s) THEN 0
    ELSE IF s[i] = "_" THEN i ELSE FindUnderscore(s, i + 1)

\* pair_key.split("_", 1)[0]
SplitHead(s) ==
    LET i == FindUnderscore(s, 1)
    IN  IF i = 0 THEN s ELSE SubSeq(s, 1, i - 1)

\* pair_key.split("_", 1)[1] if "_" in pair_key else ""
SplitRest(s) ==
    LET i == FindUnderscore(s, 1)
    IN  IF i = 0 THEN <<>> ELSE SubSeq(s, i + 1, Len(s))

HistoryRecord(pair_key, rate, now_iso, source) ==
    [id |-> <<pair_key, now_iso>>,
     from_currency |-> SplitHead(pair_key),
     to_currency |-> SplitRest(pair_key),
     rate |-> rate,
     timestamp |-> now_iso,
     source |-> source,
     meta |-> <<>>]

\* (mutant) the slot is taken when the entry is not newer: <= for <
MergeItem_LastWins(st, pair, rate, now_iso, source) ==
    IF ~IsNonBlankStr(pair) THEN st
    ELSE IF ~IsValidRate(rate) THEN st
    ELSE
    LET pair_key == Upper(Strip(pair.val))
    IN  [st EXCEPT
           !.pairs_snapshot =
               Put(@, pair_key, [rate |-> rate.val,
                                 updated_at |-> now_iso,
                                 source |-> source]),
           !.history_records =
               Append(@, HistoryRecord(pair_key, rate.val, now_iso, source))]

\* (mutant) only the observation that takes the slot is recorded
MergeItem_RecordsWinner(st, pair, rate, now_iso, source) ==
    IF ~IsNonBlankStr(pair) THEN st
    ELSE IF ~IsValidRate(rate) THEN st
    ELSE
    LET pair_key == Upper(Strip(pair.val))
        takes    == \/ ~HasKey(st.pairs_snapshot, pair_key)
                    \/ IsoLess(st.pairs_snapshot[pair_key].updated_at, now_iso)
    IN  IF ~takes THEN st
        ELSE [st EXCEPT
                !.pairs_snapshot =
                    Put(@, pair_key, [rate |-> rate.val,
                                      updated_at |-> now_iso,
                                      source |-> source]),
                !.history_records =
                    Append(@, HistoryRecord(pair_key, rate.val, now_iso, source))]

\* (mutant) the rate is not looked at: every item with a usable key is merged
MergeItem_KeepsNonPositive(st, pair, rate, now_iso, source) ==
    IF ~IsNonBlankStr(pair) THEN st
    ELSE
    LET pair_key == Upper(Strip(pair.val))
        takes    == \/ ~HasKey(st.pairs_snapshot, pair_key)
                    \/ IsoLess(st.pairs_snapshot[pair_key].updated_at, now_iso)
    IN  [st EXCEPT
           !.pairs_snapshot =
               IF takes
               THEN Put(@, pair_key, [rate |-> rate.val,
                                      updated_at |-> now_iso,
                                      source |-> source])
               ELSE @,
           !.history_records =
               Append(@, HistoryRecord(pair_key, rate.val, now_iso, source))]

\* One pass of "for pair, rate in rates.items()": the item is skipped, or it
\* takes the snapshot slot when the slot is free or strictly older, and it is
\* appended to the history records either way.
MergeItem(st, pair, rate, now_iso, source) ==
    IF ~IsNonBlankStr(pair) THEN st
    ELSE IF ~IsValidRate(rate) THEN st
    ELSE
    LET pair_key == Upper(Strip(pair.val))
        takes    == \/ ~HasKey(st.pairs_snapshot, pair_key)
                    \/ IsoLess(st.pairs_snapshot[pair_key].updated_at, now_iso)
    IN  [st EXCEPT
           !.pairs_snapshot =
               IF takes
               THEN Put(@, pair_key, [rate |-> rate.val,
                                      updated_at |-> now_iso,
                                      source |-> source])
               ELSE @,
           !.history_records =
               Append(@, HistoryRecord(pair_key, rate.val, now_iso, source))]

RECURSIVE MergeRates(_, _, _, _)
MergeRates(st, items, now_iso, source) ==
    IF items = <<>> THEN st
    ELSE MergeRates(MergeItem(st, items[1][1], items[1][2], now_iso, source),
                    Tail(items), now_iso, source)

\* The configured clients, in order.
Clients == <<"CoinGecko", "ExchangeRate-API">>

sEUR_USD == PairKey(sEUR, sUSD)
sBTC_USD == PairKey(sBTC, sUSD)

\* What a client's fetch_rates() can do: raise ApiRequestError, raise another
\* exception, return something that is not a dict, or return a dict, given
\* here by its items in iteration order.
Raises(kind) == [kind |-> kind, items |-> <<>>]
Returns(items) == [kind |-> "dict", items |-> items]

FetchAnswers ==
    { Raises("ApiRequestError"),
      Raises("Exception"),
      Raises("not a dict"),
      Returns(<<>>),
      Returns(<< <<StrVal(<<" ","e","u","r","_","u","s","d">>), NumVal(2)>>,
                 <<StrVal(sBTC_USD), NumVal(0)>> >>),
      Returns(<< <<StrVal(sEUR_USD), NumVal(3)>>,
                 <<StrVal(<<" ">>), NumVal(5)>>,
                 <<NoneVal, NumVal(5)>>,
                 <<StrVal(sBTC_USD \o <<" ">>), NumVal(2)>> >>),
      Returns(<< <<StrVal(sEUR_USD), TextVal>>,
                 <<StrVal(sBTC_USD), NumVal(-1)>> >>) }

NoUpdate ==
    [i |-> 0, started_at |-> None, pairs_snapshot |-> <<>>,
     history_records |-> <<>>, snapshot |-> None, ret |-> None,
     calls |-> <<>>]

NoPre == [rates |-> NoFile, history |-> <<>>, portfolios |-> <<>>]

\* storage.save_snapshot(snapshot): the file is replaced by the snapshot
save_snapshot(snapshot) ==
    [exists |-> TRUE, top |-> <<>>, pairs |-> Some(snapshot.pairs),
     source |-> None, last_refresh |-> Some(snapshot.last_refresh)]

\* (mutant) the file is replaced by the new records
append_history_Overwrites(data, records) == records

\* storage.append_history(records): data is what _read_json gives for the
\* file, a list the program has written itself; json.dumps and json.loads
\* give back the same strings, floats and empty dicts.
append_history(data, records) == data \o records

-----------------------------------------------------------------------------
(* parser_service/api_clients.py and config.py.  An HTTP exchange is what   *)
(* requests.get did (returned or raised), the status code, and the body as  *)
(* resp.json() parses it.  A JSON number beyond the float range is parsed   *)
(* as inf when it is written as a float (1e999) and as an int that float()  *)
(* refuses with OverflowError when it is written as an integer.             *)

Inf == <<1, 0>>
InfVal == [type |-> "float", val |-> Inf]
HugeInt == [type |-> "int", val |-> Inf]

\* float(x) raises OverflowError
Overflows(x) == x.type = "int" /\ x.val = Inf

sSuccess == <<"s","u","c","c","e","s","s">>
sError == <<"e","r","r","o","r">>
sSOL == <<"S","O","L">>
sGBP == <<"G","B","P">>

BASE_CURRENCY == sUSD
FIAT_CURRENCIES == <<sEUR, sGBP, sRUB>>
CRYPTO_CURRENCIES == <<sBTC, sETH, sSOL>>
CRYPTO_ID_MAP == (sBTC :> "bitcoin") @@ (sETH :> "ethereum") @@ (sSOL :> "solana")

LowerChar(c) ==
    IF \E i \in 1..Len(UpperChars) : UpperChars[i] = c
    THEN LowerChars[CHOOSE i \in 1..Len(UpperChars) : UpperChars[i] = c]
    ELSE c

\* str.lower()
Lower(s) == [i \in 1..Len(s) |-> LowerChar(s[i])]

\* The checks both clients make before they look into the body; "" when the
\* body is a JSON object
ResponseError(resp) ==
    IF resp.transport # "ok" THEN "ApiRequestError"
    ELSE IF resp.status # 200 THEN "ApiRequestError"
    ELSE IF resp.body.kind # "object" THEN "ApiRequestError"
    ELSE ""

\* The loop of CoinGeckoClient.fetch_rates over CRYPTO_CURRENCIES from the
\* i-th code on: the items of `out`, or <<"OverflowError">> as soon as float()
\* raises.
RECURSIVE CoinGeckoItems(_, _, _)
CoinGeckoItems(data, i, out) ==
    IF i > Len(CRYPTO_CURRENCIES) THEN out
    ELSE
    LET code    == CRYPTO_CURRENCIES[i]
        coin_id == CRYPTO_ID_MAP[code]
        vs_key  == Lower(BASE_CURRENCY)
        block   == data[coin_id]
    IN  IF coin_id \notin DOMAIN data \/ block.kind # "dict"
        THEN CoinGeckoItems(data, i + 1, out)
        ELSE IF vs_key \notin DOMAIN block.val \/ ~IsNumber(block.val[vs_key])
        THEN CoinGeckoItems(data, i + 1, out)
        ELSE IF Overflows(block.val[vs_key]) THEN <<"OverflowError">>
        ELSE IF ~IsPositive(block.val[vs_key].val)
        THEN CoinGeckoItems(data, i + 1, out)
        ELSE CoinGeckoItems(data, i + 1,
                 Append(out, <<StrVal(PairKey(Upper(code), Upper(BASE_CURRENCY))),
                               [type |-> "float", val |-> block.val[vs_key].val]>>))

\* CoinGeckoClient.fetch_rates()
CoinGeckoClient_fetch_rates(resp) ==
    IF ResponseError(resp) # "" THEN Raises(ResponseError(resp))
    ELSE LET out == CoinGeckoItems(resp.body.val, 1, <<>>)
         IN  IF out = <<"OverflowError">> THEN Raises("OverflowError")
             ELSE IF out = <<>> THEN Raises("ApiRequestError")
             ELSE Returns(out)

\* The loop of ExchangeRateApiClient.fetch_rates over FIAT_CURRENCIES
RECURSIVE ExchangeRateItems(_, _, _)
ExchangeRateItems(rates_block, i, out) ==
    IF i > Len(FIAT_CURRENCIES) THEN out
    ELSE
    LET c    == Upper(FIAT_CURRENCIES[i])
        base == Upper(BASE_CURRENCY)
    IN  IF c = base THEN ExchangeRateItems(rates_block, i + 1, out)
        ELSE IF c \notin DOMAIN rates_block \/ ~IsNumber(rates_block[c])
        THEN ExchangeRateItems(rates_block, i + 1, out)
        ELSE IF Overflows(rates_block[c]) THEN <<"OverflowError">>
        ELSE IF ~IsPositive(rates_block[c].val)
        THEN ExchangeRateItems(rates_block, i + 1, out)
        ELSE ExchangeRateItems(rates_block, i + 1,
                 Append(out, <<StrVal(PairKey(c, base)),
                               [type |-> "float",
                                val  |-> Inverse(rates_block[c].val)]>>))

\* ExchangeRateApiClient.fetch_rates(), with the API key of the configuration
ExchangeRateApiClient_fetch_rates(resp) ==
    IF ResponseError(resp) # "" THEN Raises(ResponseError(resp))
    ELSE
    LET data == resp.body.val
    IN  IF "result" \in DOMAIN data /\ data["result"].type = "str"
           /\ Lower(data["result"].val) # sSuccess
        THEN Raises("ApiRequestError")
        ELSE IF "rates" \notin DOMAIN data \/ data["rates"].kind # "dict"
        THEN Raises("ApiRequestError")
        ELSE LET out == ExchangeRateItems(data["rates"].val, 1, <<>>)
             IN  IF out = <<"OverflowError">> THEN Raises("OverflowError")
                 ELSE IF out = <<>> THEN Raises("ApiRequestError")
                 ELSE Returns(out)

\* What requests.get and resp.json() can hand to a client.
Failed(transport) == [transport |-> transport, status |-> 0,
                      body |-> [kind |-> "none", val |-> <<>>]]
Status(code, kind) == [transport |-> "ok", status |-> code,
                       body |-> [kind |-> kind, val |-> <<>>]]
Object(data) == [transport |-> "ok", status |-> 200,
                 body |-> [kind |-> "object", val |-> data]]
Dict(d) == [kind |-> "dict", val |-> d]
NotDict == [kind |-> "other", val |-> <<>>]
Word(w) == [type |-> "str", val |-> w]

susd == Lower(sUSD)
seur == Lower(sEUR)

\* Answers of api.coingecko.com/api/v3/simple/price
CoinGeckoResponses ==
    << Failed("ConnectionError"),
       Failed("Timeout"),
       Status(500, "object"),
       Status(429, "unparseable"),
       Status(204, "none"),
       Status(200, "unparseable"),
       Status(200, "list"),
       Object(<<>>),
       Object(("bitcoin" :> Dict(susd :> NumVal(5)))
              @@ ("ethereum" :> Dict(susd :> NumVal(2)))),
       Object(("bitcoin" :> Dict(susd :> NumVal(0)))
              @@ ("ethereum" :> Dict(susd :> NumVal(3)))),
       Object("bitcoin" :> Dict(susd :> NumVal(-1))),
       Object(("bitcoin" :> Dict(susd :> TextVal))
              @@ ("solana" :> Dict(susd :> NumVal(1)))),
       Object(("bitcoin" :> NotDict)
              @@ ("ethereum" :> Dict(seur :> NumVal(5)))),
       Object("dogecoin" :> Dict(susd :> NumVal(5))),
       Object("bitcoin" :> Dict(susd :> NaNVal)),
       Object(("bitcoin" :> Dict(susd :> InfVal))
              @@ ("solana" :> Dict(susd :> NumVal(2)))),
       Object(("bitcoin" :> Dict(susd :> NumVal(4)))
              @@ ("ethereum" :> Dict(susd :> HugeInt))) >>

\* Answers of v6.exchangerate-api.com/v6/<key>/latest/USD
ExchangeRateResponses ==
    << Failed("ConnectionError"),
       Failed("Timeout"),
       Status(500, "object"),
       Status(403, "unparseable"),
       Status(204, "none"),
       Status(200, "unparseable"),
       Status(200, "list"),
       Object(<<>>),
       Object("result" :> Word(sError)),
       Object("result" :> Word(sSuccess)),
       Object(("result" :> Word(sSuccess)) @@ ("rates" :> NotDict)),
       Object(("result" :> Word(Upper(sSuccess)))
              @@ ("rates" :> Dict((sUSD :> NumVal(1)) @@ (sEUR :> NumVal(2))
                                  @@ (sGBP :> NumVal(1))
                                  @@ (sRUB :> NumVal(5))))),
       Object("rates" :> Dict(sEUR :> NumVal(3))),
       Object(("result" :> NumVal(1))
              @@ ("rates" :> Dict((seur :> NumVal(2)) @@ (sGBP :> NumVal(4))))),
       Object(("result" :> Word(sSuccess))
              @@ ("rates" :> Dict((sEUR :> NumVal(0)) @@ (sGBP :> NumVal(-1))
                                  @@ (sRUB :> TextVal)))),
       Object(("result" :> Word(sSuccess))
              @@ ("rates" :> Dict((sEUR :> NaNVal) @@ (sGBP :> NumVal(2))))),
       Object(("result" :> Word(sSuccess))
              @@ ("rates" :> Dict((sEUR :> InfVal) @@ (sGBP :> NumVal(2))))),
       Object(("result" :> Word(sSuccess))
              @@ ("rates" :> Dict((sEUR :> NumVal(2)) @@ (sGBP :> HugeInt)))) >>

\* The k-th configured client asked, the exchange being resp
fetch_rates(k, resp) ==
    IF k = 1 THEN CoinGeckoClient_fetch_rates(resp)
    ELSE ExchangeRateApiClient_fetch_rates(resp)

Responses(k) == IF k = 1 THEN CoinGeckoResponses ELSE ExchangeRateResponses

-----------------------------------------------------------------------------
(* Python floats in the accounts: a fraction, or nan.  json.dump writes nan *)
(* as NaN and json.load reads it back.                                      *)

\* a + b, a - b, a * b
Add(a, b) ==
    IF IsNaN(a) \/ IsNaN(b) THEN NaN
    ELSE Frac(a[1] * b[2] + b[1] * a[2], a[2] * b[2])
Sub(a, b) ==
    IF IsNaN(a) \/ IsNaN(b) THEN NaN
    ELSE Frac(a[1] * b[2] - b[1] * a[2], a[2] * b[2])
Mul(a, b) ==
    IF IsNaN(a) \/ IsNaN(b) THEN NaN
    ELSE Frac(a[1] * b[1], a[2] * b[2])

\* a < b: every comparison with nan is False
Less(a, b) == ~IsNaN(a) /\ ~IsNaN(b) /\ a[1] * b[2] < b[1] * a[2]

\* fmt_bal(cur_code, value): ".4f" for BTC and ETH, ".2f" otherwise
\* (the text "nan", or the integer part and `places` fraction digits)
fmt_bal(cur_code, value) ==
    LET places == IF cur_code \in {sBTC, sETH} THEN 4 ELSE 2
    IN  IF IsNaN(value)
        THEN [nan |-> TRUE, int |-> 0, frac |-> 0, places |-> 0]
        ELSE [nan |-> FALSE, int |-> Format(value, places).int,
              frac |-> Format(value, places).frac, places |-> places]

-----------------------------------------------------------------------------
(* core/usecases.py: users and portfolios.  A stored user is user_id,      *)
(* username and hashed_password; the hash of password + salt is            *)
(* represented by the password, two hashes being equal when the passwords  *)
(* are.  A wallet {"balance": x} is represented by x.                      *)

\* register_user without `username = username.strip()`
register_user_NoTrim(username, password, users, portfolios) ==
    IF username = <<>> \/ Strip(username) = <<>>
    THEN [outcome |-> "ValueError", users |-> users, portfolios |-> portfolios]
    ELSE IF password = <<>> \/ Len(password) < 4
    THEN [outcome |-> "ValueError", users |-> users, portfolios |-> portfolios]
    ELSE
    LET name   == username
        ids    == {users[i].user_id : i \in 1..Len(users)}
        new_id == IF users # <<>>
                  THEN (CHOOSE m \in ids : \A x \in ids : x <= m) + 1
                  ELSE 1
    IN  IF \E i \in 1..Len(users) : users[i].username = name
        THEN [outcome |-> "ValueError", users |-> users, portfolios |-> portfolios]
        ELSE [outcome    |-> "ok",
              users      |-> Append(users, [user_id |-> new_id,
                                            username |-> name,
                                            hashed_password |-> password]),
              portfolios |-> Append(portfolios, [user_id |-> new_id,
                                                 wallets |-> <<>>])]

\* register_user(username, password)
register_user(username, password, users, portfolios) ==
    IF username = <<>> \/ Strip(username) = <<>>
    THEN [outcome |-> "ValueError", users |-> users, portfolios |-> portfolios]
    ELSE IF password = <<>> \/ Len(password) < 4
    THEN [outcome |-> "ValueError", users |-> users, portfolios |-> portfolios]
    ELSE
    LET name   == Strip(username)
        ids    == {users[i].user_id : i \in 1..Len(users)}
        new_id == IF users # <<>>
                  THEN (CHOOSE m \in ids : \A x \in ids : x <= m) + 1
                  ELSE 1
    IN  IF \E i \in 1..Len(users) : users[i].username = name
        THEN [outcome |-> "ValueError", users |-> users, portfolios |-> portfolios]
        ELSE [outcome    |-> "ok",
              users      |-> Append(users, [user_id |-> new_id,
                                            username |-> name,
                                            hashed_password |-> password]),
              portfolios |-> Append(portfolios, [user_id |-> new_id,
                                                 wallets |-> <<>>])]

\* login_user(username, password): the new _current_user, or the old one
\* when the call raises
login_user(username, password, users, current) ==
    IF username = <<>> \/ Strip(username) = <<>> THEN current
    ELSE IF password = <<>> THEN current
    ELSE IF ~\E i \in 1..Len(users) : users[i].username = username THEN current
    ELSE LET i == CHOOSE i \in 1..Len(users) :
                     /\ users[i].username = username
                     /\ \A j \in 1..(i - 1) : users[j].username # username
         IN  IF users[i].hashed_password # password THEN current
             ELSE Some(users[i])

\* The index of the first portfolio of the user, or 0
FindPortfolio(portfolios, user_id) ==
    IF \E i \in 1..Len(portfolios) : portfolios[i].user_id = user_id
    THEN CHOOSE i \in 1..Len(portfolios) :
            /\ portfolios[i].user_id = user_id
            /\ \A j \in 1..(i - 1) : portfolios[j].user_id # user_id
    ELSE 0

\* What a buy or sell call does: the exception or "ok", where it was raised,
\* the portfolios file afterwards, and what the message reports.
TradeFails(kind, at, portfolios) ==
    [outcome |-> kind, at |-> at, portfolios |-> portfolios, ret |-> None]

\* The rate buy_currency and sell_currency take for code -> base: the "rate"
\* of the top-level key CODE_BASE of rates.json as it is, or None.
StoredRate(code, base, file) ==
    LET rates    == LoadRates(file)
        pair_key == PairKey(code, base)
    IN  IF HasKey(rates.top, pair_key) /\ ~IsNotPositive(rates.top[pair_key].rate)
        THEN Some(rates.top[pair_key].rate)
        ELSE None

\* portfolios with the user's portfolio found or appended, and its index
WithPortfolio(portfolios, user_id) ==
    LET i == FindPortfolio(portfolios, user_id)
    IN  IF i = 0
        THEN [list |-> Append(portfolios, [user_id |-> user_id, wallets |-> <<>>]),
              k    |-> Len(portfolios) + 1]
        ELSE [list |-> portfolios, k |-> i]

\* buy_currency(currency, amount, base): the portfolios file is written
\* before the rate is looked at.
buy_currency(currency, amount, base, user, portfolios, file) ==
    IF user = None THEN TradeFails("ValueError", "login", portfolios)
    ELSE IF ~IsNonBlankStr(currency)
    THEN TradeFails("ValueError", "currency", portfolios)
    ELSE IF ~IsNumber(amount) \/ IsNotPositive(amount.val)
    THEN TradeFails("ValueError", "amount", portfolios)
    ELSE
    LET code        == Upper(Strip(currency.val))
        found       == WithPortfolio(portfolios, user[1].user_id)
        wallets     == found.list[found.k].wallets
        old_balance == IF HasKey(wallets, code) THEN wallets[code] ELSE Frac(0, 1)
        new_balance == Add(old_balance, amount.val)
        saved       == [found.list EXCEPT
                          ![found.k].wallets = Put(wallets, code, new_balance)]
        rate        == StoredRate(code, Upper(base), file)
    IN  IF rate = None THEN TradeFails("ValueError", "rate", saved)
        ELSE [outcome    |-> "ok",
              at         |-> "return",
              portfolios |-> saved,
              ret        |-> Some([rate   |-> rate[1],
                                   amount |-> fmt_bal(code, amount.val),
                                   old    |-> fmt_bal(code, old_balance),
                                   new    |-> fmt_bal(code, new_balance),
                                   value  |-> Mul(amount.val, rate[1])])]

\* (mutant) a wallet sold down to 0 is removed from the portfolio
sell_currency_DropsEmpty(currency, amount, base, user, portfolios, file) ==
    IF user = None THEN TradeFails("ValueError", "login", portfolios)
    ELSE IF ~IsNonBlankStr(currency)
    THEN TradeFails("ValueError", "currency", portfolios)
    ELSE IF ~IsNumber(amount) \/ IsNotPositive(amount.val)
    THEN TradeFails("ValueError", "amount", portfolios)
    ELSE
    LET code        == Upper(Strip(currency.val))
        found       == WithPortfolio(portfolios, user[1].user_id)
        wallets     == found.list[found.k].wallets
        old_balance == wallets[code]
        new_balance == Sub(old_balance, amount.val)
        rate        == StoredRate(code, Upper(base), file)
        revenue     == Mul(amount.val, rate[1])
        sold        == IF new_balance = Frac(0, 1)
                       THEN [k \in DOMAIN wallets \ {code} |-> wallets[k]]
                       ELSE Put(wallets, code, new_balance)
        credited    == IF HasKey(sold, Upper(base))
                       THEN Put(sold, Upper(base), Add(sold[Upper(base)], revenue))
                       ELSE sold
    IN  IF ~HasKey(wallets, code)
        THEN TradeFails("ValueError", "wallet", portfolios)
        ELSE IF Less(old_balance, amount.val)
        THEN [outcome    |-> "ValueError",
              at         |-> "funds",
              portfolios |-> portfolios,
              ret        |-> Some([available |-> fmt_bal(code, old_balance),
                                   required  |-> fmt_bal(code, amount.val)])]
        ELSE IF rate = None THEN TradeFails("ValueError", "rate", portfolios)
        ELSE [outcome    |-> "ok",
              at         |-> "return",
              portfolios |-> [found.list EXCEPT ![found.k].wallets = credited],
              ret        |-> Some([rate   |-> rate[1],
                                   amount |-> fmt_bal(code, amount.val),
                                   old    |-> fmt_bal(code, old_balance),
                                   new    |-> fmt_bal(code, new_balance),
                                   value  |-> revenue])]

\* (mutant) the revenue is credited to a base wallet created when missing
sell_currency_CreatesBase(currency, amount, base, user, portfolios, file) ==
    IF user = None THEN TradeFails("ValueError", "login", portfolios)
    ELSE IF ~IsNonBlankStr(currency)
    THEN TradeFails("ValueError", "currency", portfolios)
    ELSE IF ~IsNumber(amount) \/ IsNotPositive(amount.val)
    THEN TradeFails("ValueError", "amount", portfolios)
    ELSE
    LET code        == Upper(Strip(currency.val))
        found       == WithPortfolio(portfolios, user[1].user_id)
        wallets     == found.list[found.k].wallets
        old_balance == wallets[code]
        new_balance == Sub(old_balance, amount.val)
        rate        == StoredRate(code, Upper(base), file)
        revenue     == Mul(amount.val, rate[1])
        sold        == Put(wallets, code, new_balance)
        credited    == IF HasKey(sold, Upper(base))
                       THEN Put(sold, Upper(base), Add(sold[Upper(base)], revenue))
                       ELSE Put(sold, Upper(base), revenue)
    IN  IF ~HasKey(wallets, code)
        THEN TradeFails("ValueError", "wallet", portfolios)
        ELSE IF Less(old_balance, amount.val)
        THEN [outcome    |-> "ValueError",
              at         |-> "funds",
              portfolios |-> portfolios,
              ret        |-> Some([available |-> fmt_bal(code, old_balance),
                                   required  |-> fmt_bal(code, amount.val)])]
        ELSE IF rate = None THEN TradeFails("ValueError", "rate", portfolios)
        ELSE [outcome    |-> "ok",
              at         |-> "return",
              portfolios |-> [found.list EXCEPT ![found.k].wallets = credited],
              ret        |-> Some([rate   |-> rate[1],
                                   amount |-> fmt_bal(code, amount.val),
                                   old    |-> fmt_bal(code, old_balance),
                                   new    |-> fmt_bal(code, new_balance),
                                   value  |-> revenue])]

\* sell_currency(currency, amount, base): the portfolios file is written
\* last, after the rate was found.
sell_currency(currency, amount, base, user, portfolios, file) ==
    IF user = None THEN TradeFails("ValueError", "login", portfolios)
    ELSE IF ~IsNonBlankStr(currency)
    THEN TradeFails("ValueError", "currency", portfolios)
    ELSE IF ~IsNumber(amount) \/ IsNotPositive(amount.val)
    THEN TradeFails("ValueError", "amount", portfolios)
    ELSE
    LET code        == Upper(Strip(currency.val))
        found       == WithPortfolio(portfolios, user[1].user_id)
        wallets     == found.list[found.k].wallets
        old_balance == wallets[code]
        new_balance == Sub(old_balance, amount.val)
        rate        == StoredRate(code, Upper(base), file)
        revenue     == Mul(amount.val, rate[1])
        sold        == Put(wallets, code, new_balance)
        credited    == IF HasKey(sold, Upper(base))
                       THEN Put(sold, Upper(base), Add(sold[Upper(base)], revenue))
                       ELSE sold
    IN  IF ~HasKey(wallets, code)
        THEN TradeFails("ValueError", "wallet", portfolios)
        ELSE IF Less(old_balance, amount.val)
        THEN [outcome    |-> "ValueError",
              at         |-> "funds",
              portfolios |-> portfolios,
              ret        |-> Some([available |-> fmt_bal(code, old_balance),
                                   required  |-> fmt_bal(code, amount.val)])]
        ELSE IF rate = None THEN TradeFails("ValueError", "rate", portfolios)
        ELSE [outcome    |-> "ok",
              at         |-> "return",
              portfolios |-> [found.list EXCEPT ![found.k].wallets = credited],
              ret        |-> Some([rate   |-> rate[1],
                                   amount |-> fmt_bal(code, amount.val),
                                   old    |-> fmt_bal(code, old_balance),
                                   new    |-> fmt_bal(code, new_balance),
                                   value  |-> revenue])]

NoTrade ==
    [op |-> "none", currency |-> NoneVal, amount |-> NaNVal, user |-> None,
     outcome |-> "none", at |-> "none", ret |-> None]

\* The arguments a caller passes to buy_currency and to sell_currency:
\* currency and amount; base is left at its default "USD".
BuyCalls ==
    { <<StrVal(<<" ","e","u","r">>), NumVal(1)>>,
      <<StrVal(sEUR), NumVal(2)>>,
      <<StrVal(sBTC), NumVal(2)>>,
      <<StrVal(sUSD), NumVal(1)>>,
      <<StrVal(sEUR), NaNVal>>,
      <<StrVal(sEUR), NumVal(0)>>,
      <<StrVal(sEUR), TextVal>>,
      <<StrVal(<<" ">>), NumVal(1)>>,
      <<NoneVal, NumVal(1)>> }

SellCalls ==
    { <<StrVal(<<" ","e","u","r">>), NumVal(1)>>,
      <<StrVal(sEUR), NumVal(2)>>,
      <<StrVal(sBTC), NumVal(3)>>,
      <<StrVal(sETH), NumVal(1)>>,
      <<StrVal(sEUR), NaNVal>>,
      <<StrVal(sEUR), NumVal(0)>>,
      <<StrVal(sEUR), TextVal>>,
      <<StrVal(<<" ">>), NumVal(1)>>,
      <<NoneVal, NumVal(1)>> }

\* The names and passwords typed at register and login.
sAlice == <<"a","l","i","c","e">>
sBob == <<"b","o","b">>
sPass == <<"p","a","s","s">>
sWrong == <<"w","r","o","n","g">>

LoginCalls ==
    { <<sAlice, sPass>>, <<sBob, sWrong>>, <<sAlice, sWrong>>,
      <<<<" ">> \o sAlice, sPass>>, <<sAlice, <<>>>> }

\* No other process is running.
NoProcs == <<>>

-----------------------------------------------------------------------------
(* Several processes on the same files: two more command loops trading, one *)
(* asking for a rate and the parser refreshing.  Each runs one command.  A  *)
(* command reads the whole file (usecases.py 210, 288 and 382-385),         *)
(* computes, and writes the whole file (usecases.py 235, 352 and 440-441,   *)
(* save_snapshot); nothing is locked, so the steps of the processes         *)
(* interleave between the read and the write.  run_update reads nothing of  *)
(* rates.json: its first step is the fetch from the clients.                *)

\* The command each process may run: the trading ones are logged in as the
\* user named.
ProcCalls ==
    << << [op |-> "buy",  user |-> sAlice, a |-> StrVal(sEUR), b |-> NumVal(1)],
          [op |-> "sell", user |-> sBob,   a |-> StrVal(sEUR), b |-> NumVal(1)] >>,
       << [op |-> "buy",  user |-> sBob,   a |-> StrVal(sEUR), b |-> NumVal(2)],
          [op |-> "buy",  user |-> sAlice, a |-> StrVal(sBTC), b |-> NumVal(1)] >>,
       << [op |-> "get_rate", user |-> <<>>, a |-> StrVal(sUSD), b |-> StrVal(sRUB)],
          [op |-> "get_rate", user |-> <<>>, a |-> StrVal(sEUR), b |-> StrVal(sUSD)] >>,
       << [op |-> "update", user |-> <<>>, a |-> NoneVal, b |-> NoneVal] >> >>

NoCall == [op |-> "none", user |-> <<>>, a |-> NoneVal, b |-> NoneVal]

IdleProc ==
    [cmd |-> NoCall, pc |-> "idle", local |-> <<>>, ok |-> FALSE,
     wrote |-> FALSE, stale |-> FALSE]

\* What the providers answer during the race.
RaceResponses == <<CoinGeckoResponses[9], ExchangeRateResponses[13]>>

\* The loop of run_update over the clients from the k-th on, each asked at t
RECURSIVE RunClients(_, _, _)
RunClients(st, k, t) ==
    IF k > Len(Clients) THEN st
    ELSE LET a == fetch_rates(k, RaceResponses[k])
         IN  RunClients(IF a.kind = "dict"
                        THEN MergeRates(st, a.items, utc_now_iso(t), Clients[k])
                        ELSE st,
                        k + 1, t)

\* The file a command works on
Target(c) == IF c.op \in {"buy", "sell"} THEN "portfolios" ELSE "rates"

\* The command reads its file before it writes it
Reads(c) == c.op \in {"buy", "sell", "get_rate"}

\* The command c computed on the content it has read: whether it reports
\* success, whether it writes its file, and what it writes.
Run(c, content, users, rates, t) ==
    CASE c.op = "buy" ->
           LET r == buy_currency(c.a, c.b, sUSD,
                                 login_user(c.user, sPass, users, None),
                                 content, rates)
           IN  [ok |-> r.outcome = "ok", writes |-> r.at \in {"rate", "return"},
                content |-> r.portfolios, records |-> <<>>]
      [] c.op = "sell" ->
           LET r == sell_currency(c.a, c.b, sUSD,
                                  login_user(c.user, sPass, users, None),
                                  content, rates)
           IN  [ok |-> r.outcome = "ok", writes |-> r.at = "return",
                content |-> r.portfolios, records |-> <<>>]
      [] c.op = "get_rate" ->
           LET r == get_rate(c.a, c.b, content, t)
           IN  [ok |-> r.outcome = "ok", writes |-> r.file # content,
                content |-> r.file, records |-> <<>>]
      [] OTHER ->
           LET st == RunClients(NoUpdate, 1, t)
           IN  [ok |-> st.pairs_snapshot # <<>>,
                writes |-> st.pairs_snapshot # <<>>,
                content |-> save_snapshot([pairs |-> st.pairs_snapshot,
                                           last_refresh |-> utc_now_iso(t)]),
                records |-> st.history_records]

-----------------------------------------------------------------------------
(* The state machine *)

Init ==
    /\ now = 0
    /\ ratesFile = NoFile
    /\ historyFile = <<>>
    /\ pc = "idle"
    /\ res = NoResult
    /\ upd = NoUpdate
    /\ fetched = <<>>
    /\ pre = NoPre
    /\ usersFile = <<>>
    /\ portfoliosFile = <<>>
    /\ current_user = None
    /\ trade = NoTrade
    /\ procs = NoProcs

\* Time passes: between two commands, and while run_update waits for a client.
Tick ==
    /\ pc \in {"idle", "fetching"}
    /\ now + max_age <= MaxTicks * max_age
    /\ now' = now + max_age
    /\ UNCHANGED <<ratesFile, historyFile, pc, res, upd, fetched, pre, accounts>>

\* get-rate --from f --to t
GetRate ==
    /\ pc = "idle"
    /\ \E c \in RateCalls :
          LET r == get_rate(c[1], c[2], ratesFile, now)
          IN  /\ ratesFile' = r.file
              /\ res' = [frm |-> c[1], to |-> c[2], outcome |-> r.outcome,
                         ret |-> r.ret, read |-> r.read]
    /\ pc' = "rate_done"
    /\ pre' = [rates |-> ratesFile, history |-> historyFile,
               portfolios |-> portfoliosFile]
    /\ UNCHANGED <<now, historyFile, upd, fetched, accounts>>

\* update-rates: run_update up to the loop over the clients
StartUpdate ==
    /\ pc = "idle"
    /\ pc' = "fetching"
    /\ upd' = [NoUpdate EXCEPT !.i = 1, !.started_at = Some(utc_now_iso(now))]
    /\ fetched' = <<>>
    /\ pre' = [rates |-> ratesFile, history |-> historyFile,
               portfolios |-> portfoliosFile]
    /\ UNCHANGED <<now, ratesFile, historyFile, res, accounts>>

\* (mutant) an unexpected exception of a client is not caught: it ends the run
FetchClient_Propagates ==
    /\ pc = "fetching"
    /\ upd.i <= Len(Clients)
    /\ \E a \in FetchAnswers :
          LET source  == Clients[upd.i]
              now_iso == utc_now_iso(now)
              merged  == IF a.kind = "dict"
                         THEN MergeRates(upd, a.items, now_iso, source)
                         ELSE upd
          IN  /\ Len(historyFile) + Len(merged.history_records) <= MaxHistory
              /\ upd' = [merged EXCEPT !.i = upd.i + 1]
              /\ fetched' = Append(fetched, [source |-> source, answer |-> a,
                                             now_iso |-> now_iso])
              /\ pc' = IF a.kind = "Exception" THEN "update_failed" ELSE pc
    /\ UNCHANGED <<now, ratesFile, historyFile, res, pre, accounts>>

\* One iteration of "for client in self.clients": the fetch, and the merge of
\* what it returned, or the except clause that goes on to the next client.
FetchClient ==
    /\ pc = "fetching"
    /\ upd.i <= Len(Clients)
    /\ \E a \in FetchAnswers :
          LET source  == Clients[upd.i]
              now_iso == utc_now_iso(now)
              merged  == IF a.kind = "dict"
                         THEN MergeRates(upd, a.items, now_iso, source)
                         ELSE upd
          IN  \* the history stays within MaxHistory records
              /\ Len(historyFile) + Len(merged.history_records) <= MaxHistory
              /\ upd' = [merged EXCEPT !.i = upd.i + 1]
              /\ fetched' = Append(fetched, [source |-> source, answer |-> a,
                                             now_iso |-> now_iso])
    /\ UNCHANGED <<now, ratesFile, historyFile, pc, res, pre, accounts>>

\* (mutant) the empty snapshot is saved like any other
FinishFetching_SavesEmpty ==
    /\ pc = "fetching"
    /\ upd.i > Len(Clients)
    /\ upd' = [upd EXCEPT !.snapshot =
                 Some([pairs |-> upd.pairs_snapshot,
                       last_refresh |-> utc_now_iso(now)])]
    /\ pc' = "saving"
    /\ UNCHANGED <<now, ratesFile, historyFile, res, fetched, pre, accounts>>

\* (mutant) last_refresh is the timestamp of the start of the run
FinishFetching_StartStamp ==
    /\ pc = "fetching"
    /\ upd.i > Len(Clients)
    /\ upd' = [upd EXCEPT !.snapshot =
                 Some([pairs |-> upd.pairs_snapshot,
                       last_refresh |-> upd.started_at[1]])]
    /\ pc' = IF upd.pairs_snapshot = <<>> THEN "update_failed" ELSE "saving"
    /\ UNCHANGED <<now, ratesFile, historyFile, res, fetched, pre, accounts>>

\* After the loop: the snapshot is built; with no pair in it run_update raises
\* ApiRequestError, otherwise it goes on to save.
FinishFetching ==
    /\ pc = "fetching"
    /\ upd.i > Len(Clients)
    /\ upd' = [upd EXCEPT !.snapshot =
                 Some([pairs |-> upd.pairs_snapshot,
                       last_refresh |-> utc_now_iso(now)])]
    /\ pc' = IF upd.pairs_snapshot = <<>> THEN "update_failed" ELSE "saving"
    /\ UNCHANGED <<now, ratesFile, historyFile, res, fetched, pre, accounts>>

\* self.storage.save_snapshot(snapshot)
SaveSnapshot ==
    /\ pc = "saving"
    /\ ratesFile' = save_snapshot(upd.snapshot[1])
    /\ upd' = [upd EXCEPT !.calls = Append(@, "save_snapshot")]
    /\ pc' = "appending"
    /\ UNCHANGED <<now, historyFile, res, fetched, pre, accounts>>

\* self.storage.append_history(history_records); return snapshot
AppendHistory ==
    /\ pc = "appending"
    /\ historyFile' = append_history(historyFile, upd.history_records)
    /\ upd' = [upd EXCEPT !.ret = upd.snapshot,
                           !.calls = Append(@, "append_history")]
    /\ pc' = "update_done"
    /\ UNCHANGED <<now, ratesFile, res, fetched, pre, accounts>>

\* The command has printed its result; the loop reads the next command.
Prompt ==
    /\ pc \in {"rate_done", "update_done", "update_failed", "trade_done",
             "fetch_done", "register_done"}
    /\ pc' = "idle"
    /\ res' = NoResult
    /\ upd' = NoUpdate
    /\ fetched' = <<>>
    /\ pre' = NoPre
    /\ trade' = NoTrade
    /\ UNCHANGED <<now, ratesFile, historyFile, usersFile, portfoliosFile,
                   current_user, procs>>

\* login --username u --password p
Login ==
    /\ pc = "idle"
    /\ \E c \in LoginCalls :
          current_user' = login_user(c[1], c[2], usersFile, current_user)
    /\ UNCHANGED <<now, ratesFile, historyFile, pc, res, upd, fetched, pre,
                   usersFile, portfoliosFile, trade, procs>>

\* No wallet of the file holds more than MaxBalance.
WithinBalance(portfolios) ==
    \A i \in 1..Len(portfolios) :
        \A code \in DOMAIN portfolios[i].wallets :
            ~Less(Frac(MaxBalance, 1), portfolios[i].wallets[code])

\* buy --currency c --amount a
Buy ==
    /\ pc = "idle"
    /\ \E c \in BuyCalls :
          LET r == buy_currency(c[1], c[2], sUSD, current_user,
                                portfoliosFile, ratesFile)
          IN  /\ WithinBalance(r.portfolios)
              /\ portfoliosFile' = r.portfolios
              /\ trade' = [op |-> "buy", currency |-> c[1], amount |-> c[2],
                           user |-> current_user, outcome |-> r.outcome,
                           at |-> r.at, ret |-> r.ret]
    /\ pc' = "trade_done"
    /\ pre' = [rates |-> ratesFile, history |-> historyFile,
               portfolios |-> portfoliosFile]
    /\ UNCHANGED <<now, ratesFile, historyFile, res, upd, fetched,
                   usersFile, current_user, procs>>

\* sell --currency c --amount a
Sell ==
    /\ pc = "idle"
    /\ \E c \in SellCalls :
          LET r == sell_currency(c[1], c[2], sUSD, current_user,
                                 portfoliosFile, ratesFile)
          IN  /\ WithinBalance(r.portfolios)
              /\ portfoliosFile' = r.portfolios
              /\ trade' = [op |-> "sell", currency |-> c[1], amount |-> c[2],
                           user |-> current_user, outcome |-> r.outcome,
                           at |-> r.at, ret |-> r.ret]
    /\ pc' = "trade_done"
    /\ pre' = [rates |-> ratesFile, history |-> historyFile,
               portfolios |-> portfoliosFile]
    /\ UNCHANGED <<now, ratesFile, historyFile, res, upd, fetched,
                   usersFile, current_user, procs>>

Next ==
    \/ Tick
    \/ GetRate
    \/ StartUpdate
    \/ FetchClient
    \/ FinishFetching
    \/ SaveSnapshot
    \/ AppendHistory
    \/ Prompt

Spec == Init /\ [][Next]_vars

\* The refresh pipeline on its own: update-rates commands only.
NextUpdate ==
    \/ Tick
    \/ StartUpdate
    \/ FetchClient
    \/ FinishFetching
    \/ SaveSnapshot
    \/ AppendHistory
    \/ Prompt

SpecUpdate == Init /\ [][NextUpdate]_vars

\* The rate lookup on its own: get-rate commands only, on a rates file that
\* is absent at first or is the snapshot an earlier refresh has saved.
SavedSnapshot ==
    save_snapshot([pairs |-> (sEUR_USD :> [rate |-> Frac(2, 1),
                                           updated_at |-> utc_now_iso(0),
                                           source |-> Clients[1]]),
                   last_refresh |-> utc_now_iso(0)])

InitLookup ==
    /\ now = 0
    /\ ratesFile \in {NoFile, SavedSnapshot}
    /\ historyFile = <<>>
    /\ pc = "idle"
    /\ res = NoResult
    /\ upd = NoUpdate
    /\ fetched = <<>>
    /\ pre = NoPre
    /\ usersFile = <<>>
    /\ portfoliosFile = <<>>
    /\ current_user = None
    /\ trade = NoTrade
    /\ procs = NoProcs

NextLookup ==
    \/ Tick
    \/ GetRate
    \/ Prompt

SpecLookup == InitLookup /\ [][NextLookup]_vars

\* Trading on its own: the login, buy and sell commands of one user, after
\* two users have registered and the other one has bought 1 EUR, on a rates
\* file that is absent, or holds the entry a get_rate("EUR", "USD") call has
\* written, or is the snapshot a refresh has saved.
Registered ==
    LET first  == register_user(sAlice, sPass, <<>>, <<>>)
        second == register_user(<<" ">> \o sBob \o <<" ">>, sPass,
                                first.users, first.portfolios)
        bob    == login_user(sBob, sPass, second.users, None)
    IN  [users      |-> second.users,
         portfolios |-> buy_currency(StrVal(sEUR), NumVal(1), sUSD, bob,
                                     second.portfolios, NoFile).portfolios]

LookedUp == get_rate(StrVal(sEUR), StrVal(sUSD), NoFile, 0).file

InitTrade ==
    /\ now = 0
    /\ ratesFile \in {NoFile, LookedUp, SavedSnapshot}
    /\ historyFile = <<>>
    /\ pc = "idle"
    /\ res = NoResult
    /\ upd = NoUpdate
    /\ fetched = <<>>
    /\ pre = NoPre
    /\ usersFile = Registered.users
    /\ portfoliosFile = Registered.portfolios
    /\ current_user = None
    /\ trade = NoTrade
    /\ procs = NoProcs

NextTrade ==
    \/ Tick
    \/ Login
    \/ Buy
    \/ Sell
    \/ Prompt

SpecTrade == InitTrade /\ [][NextTrade]_vars

-----------------------------------------------------------------------------
(* get_rate on a rates.json it has not written itself *)

\* The spellings of updated_at a stored entry can have: a naive ISO string,
\* the "Z" suffix of utc_now_iso, an explicit offset, and no ISO string at
\* all.  datetime.fromisoformat parses the first three.
StoredStamps ==
    { NaiveIso(0), utc_now_iso(0), [t |-> 0, tz |-> "+00:00"],
      [t |-> 0, tz |-> "malformed"] }

\* rates.json with a top-level EUR_USD entry stamped s
StoredDoc(s) ==
    [EmptyDoc EXCEPT !.top = (sEUR_USD :> [rate |-> Frac(2, 1),
                                           updated_at |-> s])]

InitStored ==
    /\ now = 0
    /\ ratesFile \in {StoredDoc(s) : s \in StoredStamps}
    /\ historyFile = <<>>
    /\ pc = "idle"
    /\ res = NoResult
    /\ upd = NoUpdate
    /\ fetched = <<>>
    /\ pre = NoPre
    /\ usersFile = <<>>
    /\ portfoliosFile = <<>>
    /\ current_user = None
    /\ trade = NoTrade
    /\ procs = NoProcs

SpecStored == InitStored /\ [][NextLookup]_vars

-----------------------------------------------------------------------------
(* One call of a client's fetch_rates(), on its own *)

\* client.fetch_rates(), the exchange with the provider being any of Responses
Fetch ==
    /\ pc = "idle"
    /\ \E k \in 1..Len(Clients) :
          \E i \in 1..Len(Responses(k)) :
             fetched' = <<[source   |-> Clients[k],
                           answer   |-> fetch_rates(k, Responses(k)[i]),
                           now_iso  |-> utc_now_iso(now),
                           response |-> Responses(k)[i]]>>
    /\ pc' = "fetch_done"
    /\ UNCHANGED <<now, ratesFile, historyFile, res, upd, pre, accounts>>

NextFetch ==
    \/ Tick
    \/ Fetch
    \/ Prompt

SpecFetch == Init /\ [][NextFetch]_vars

-----------------------------------------------------------------------------
(* The processes racing *)

Content(target) == IF target = "portfolios" THEN portfoliosFile ELSE ratesFile

\* A process starts its command and reads the file.
ProcRead ==
    /\ \E p \in DOMAIN procs :
          /\ procs[p].pc = "idle"
          /\ \E i \in 1..Len(ProcCalls[p]) :
                LET c == ProcCalls[p][i]
                IN  procs' = [procs EXCEPT ![p] =
                                 [@ EXCEPT !.cmd = c, !.pc = "read",
                                           !.local = IF Reads(c)
                                                     THEN Content(Target(c))
                                                     ELSE <<>>]]
    /\ UNCHANGED <<now, ratesFile, historyFile, pc, res, upd, fetched, pre,
                   usersFile, portfoliosFile, current_user, trade>>

\* (mutant) the file is read again at the moment of writing
ProcWrite_Rereads ==
    /\ \E p \in DOMAIN procs :
          /\ procs[p].pc = "read"
          /\ LET c == procs[p].cmd
                 r == Run(c, Content(Target(c)), usersFile, ratesFile, now)
             IN  /\ portfoliosFile' = IF r.writes /\ Target(c) = "portfolios"
                                      THEN r.content ELSE portfoliosFile
                 /\ ratesFile' = IF r.writes /\ Target(c) = "rates"
                                 THEN r.content ELSE ratesFile
                 /\ historyFile' = IF r.writes
                                   THEN append_history(historyFile, r.records)
                                   ELSE historyFile
                 /\ procs' = [procs EXCEPT ![p] =
                                [@ EXCEPT !.pc = "done", !.ok = r.ok,
                                          !.wrote = r.writes,
                                          !.stale = /\ Reads(c)
                                                    /\ Content(Target(c)) # procs[p].local]]
    /\ UNCHANGED <<now, pc, res, upd, fetched, pre, usersFile, current_user,
                   trade>>

\* A process finishes its command: what it computed from the content it read
\* replaces the file, and the command reports.  run_update appends its
\* records to the history next; no other process of these touches that file.
ProcWrite ==
    /\ \E p \in DOMAIN procs :
          /\ procs[p].pc = "read"
          /\ LET c == procs[p].cmd
                 r == Run(c, procs[p].local, usersFile, ratesFile, now)
             IN  /\ portfoliosFile' = IF r.writes /\ Target(c) = "portfolios"
                                      THEN r.content ELSE portfoliosFile
                 /\ ratesFile' = IF r.writes /\ Target(c) = "rates"
                                 THEN r.content ELSE ratesFile
                 /\ historyFile' = IF r.writes
                                   THEN append_history(historyFile, r.records)
                                   ELSE historyFile
                 /\ procs' = [procs EXCEPT ![p] =
                                [@ EXCEPT !.pc = "done", !.ok = r.ok,
                                          !.wrote = r.writes,
                                          !.stale = /\ Reads(c)
                                                    /\ Content(Target(c)) # procs[p].local]]
    /\ UNCHANGED <<now, pc, res, upd, fetched, pre, usersFile, current_user,
                   trade>>

\* Two users are registered, one holds 1 EUR, and rates.json holds the
\* EUR_USD entry of an earlier get_rate call.
InitRace ==
    /\ now = 0
    /\ ratesFile = LookedUp
    /\ historyFile = <<>>
    /\ pc = "idle"
    /\ res = NoResult
    /\ upd = NoUpdate
    /\ fetched = <<>>
    /\ pre = NoPre
    /\ usersFile = Registered.users
    /\ portfoliosFile = Registered.portfolios
    /\ current_user = None
    /\ trade = NoTrade
    /\ procs = [p \in 1..Len(ProcCalls) |-> IdleProc]

NextRace ==
    \/ ProcRead
    \/ ProcWrite

SpecRace == InitRace /\ [][NextRace]_vars

-----------------------------------------------------------------------------
(* Properties of run_update, stated on the answers of the clients *)

\* run_update has returned, or has raised.
UpdateOver == pc \in {"update_done", "update_failed"}

\* An observation that counts: a non-blank string pair, a positive number.
Accepted(item) ==
    /\ item[1].type = "str"
    /\ Strip(item[1].val) # <<>>
    /\ item[2].type \in {"int", "float"}
    /\ item[2].val[1] > 0

\* The accepted observations of the k-th client attempted, in order.
AcceptedOf(k) ==
    IF fetched[k].answer.kind = "dict"
    THEN SelectSeq(fetched[k].answer.items, Accepted)
    ELSE <<>>

RECURSIVE AcceptedUpTo(_)
AcceptedUpTo(k) ==
    IF k = 0 THEN <<>>
    ELSE LET items == AcceptedOf(k)
         IN  AcceptedUpTo(k - 1) \o
             [j \in 1..Len(items) |->
                 [pair   |-> Upper(Strip(items[j][1].val)),
                  rate   |-> items[j][2].val,
                  source |-> fetched[k].source,
                  at     |-> fetched[k].now_iso]]

\* Every accepted observation of the run, client by client.
Observations == AcceptedUpTo(Len(fetched))

SomeClientFailed ==
    \E k \in 1..Len(fetched) : fetched[k].answer.kind # "dict"

\* C1: when at least one client returned at least one valid observation, the
\* update succeeds, whichever other clients failed and wherever they stand in
\* the list, and every observed pair is in the stored snapshot with the rate
\* and the source of an observation of that pair.
C1_PartialFailureTolerated ==
    UpdateOver =>
        LET obs == Observations
        IN  obs # <<>> =>
              /\ pc = "update_done"
              /\ ratesFile.exists
              /\ ratesFile.pairs # None
              /\ \A j \in 1..Len(obs) :
                    /\ HasKey(ratesFile.pairs[1], obs[j].pair)
                    /\ \E k \in 1..Len(obs) :
                          /\ obs[k].pair = obs[j].pair
                          /\ ratesFile.pairs[1][obs[j].pair] =
                                [rate |-> obs[k].rate,
                                 updated_at |-> obs[k].at,
                                 source |-> obs[k].source]

\* The first client raised an unexpected exception, the second one delivered,
\* and the update went through.
C1_Witness ==
    /\ pc = "update_done"
    /\ fetched[1].answer.kind = "Exception"
    /\ AcceptedOf(2) # <<>>

\* C2: when no client delivered a valid observation, run_update raises, has
\* called neither save_snapshot nor append_history, and both files are as
\* they were before the refresh.
C2_NoDataNoWrite ==
    (UpdateOver /\ Observations = <<>>) =>
        /\ pc = "update_failed"
        /\ upd.calls = <<>>
        /\ upd.ret = <<>>
        /\ ratesFile = pre.rates
        /\ historyFile = pre.history

\* A refresh failed on top of a snapshot and a history of an earlier refresh.
C2_Witness ==
    /\ pc = "update_failed"
    /\ pre.rates.exists
    /\ pre.history # <<>>
    /\ SomeClientFailed

\* A pair that both clients of the run delivered.
Overlap(key) ==
    /\ Len(fetched) = 2
    /\ \E j \in 1..Len(AcceptedOf(1)) :
          Upper(Strip(AcceptedOf(1)[j][1].val)) = key
    /\ \E j \in 1..Len(AcceptedOf(2)) :
          Upper(Strip(AcceptedOf(2)[j][1].val)) = key

\* The rate the k-th client gave for the pair.
RateOf(k, key) ==
    LET j == CHOOSE j \in 1..Len(AcceptedOf(k)) :
                 Upper(Strip(AcceptedOf(k)[j][1].val)) = key
    IN  AcceptedOf(k)[j][2].val

ObservedPairs == {Observations[j].pair : j \in 1..Len(Observations)}

\* C3 as stated: for a pair both clients returned, the snapshot entry has the
\* rate and the source of the client processed last.
C3_LastClientWins ==
    pc = "update_done" =>
        \A key \in ObservedPairs :
            Overlap(key) =>
                /\ ratesFile.pairs[1][key].source = fetched[2].source
                /\ ratesFile.pairs[1][key].rate = RateOf(2, key)

\* C3, amended: for a pair both clients returned, the snapshot has one entry;
\* it is the later client's when that client's fetch timestamp is strictly
\* newer, and the earlier client's when the two timestamps are equal.
C3_NewerElseFirstWins ==
    pc = "update_done" =>
        \A key \in ObservedPairs :
            Overlap(key) =>
                LET w == IF fetched[1].now_iso.t < fetched[2].now_iso.t
                         THEN 2 ELSE 1
                IN  ratesFile.pairs[1][key] =
                        [rate |-> RateOf(w, key),
                         updated_at |-> fetched[w].now_iso,
                         source |-> fetched[w].source]

\* Both clients quoted EUR_USD, at different rates, within the same second.
C3_Witness ==
    /\ pc = "update_done"
    /\ Overlap(sEUR_USD)
    /\ RateOf(1, sEUR_USD) # RateOf(2, sEUR_USD)
    /\ fetched[1].now_iso = fetched[2].now_iso

\* C4: a successful run_update appends one history record per accepted
\* observation, in order, also for an observation that did not take the
\* snapshot slot: as many records as accepted observations.
C4_OneRecordPerObservation ==
    pc = "update_done" =>
        LET obs == Observations
        IN  /\ Len(upd.history_records) = Len(obs)
            /\ \A j \in 1..Len(obs) :
                  /\ upd.history_records[j].id = <<obs[j].pair, obs[j].at>>
                  /\ upd.history_records[j].rate = obs[j].rate
                  /\ upd.history_records[j].source = obs[j].source
                  /\ upd.history_records[j].timestamp = obs[j].at
            /\ historyFile = pre.history \o upd.history_records

\* Three observations of two pairs: two snapshot entries, three records.
C4_Witness ==
    /\ pc = "update_done"
    /\ Overlap(sEUR_USD)
    /\ Len(upd.history_records) = 3
    /\ DOMAIN ratesFile.pairs[1] = {sEUR_USD, sBTC_USD}

-----------------------------------------------------------------------------
(* Properties of get_rate, stated on the call just made *)

\* get_rate has just returned or raised, on two non-blank strings.
Looked ==
    /\ pc = "rate_done"
    /\ res.frm.type = "str" /\ Strip(res.frm.val) # <<>>
    /\ res.to.type = "str" /\ Strip(res.to.val) # <<>>

\* The codes asked for, and the pair key.
AskedFrom == Upper(Strip(res.frm.val))
AskedTo == Upper(Strip(res.to.val))
AskedPair == AskedFrom \o <<"_">> \o AskedTo
AskedReverse == AskedTo \o <<"_">> \o AskedFrom

\* The file held a well-typed entry for the pair when the call started.
Cached == /\ pre.rates.exists
          /\ AskedPair \in DOMAIN pre.rates.top
          /\ pre.rates.top[AskedPair].rate[1] > 0
CachedEntry == pre.rates.top[AskedPair]
CachedAge == now - CachedEntry.updated_at.t

\* The call answered with the entry of the file: its rate, its time.
ServedFromCache ==
    /\ res.outcome = "ok"
    /\ res.ret = <<[rate    |-> Format(CachedEntry.rate, 8),
                    updated |-> CachedEntry.updated_at.t,
                    reverse |-> Format(<<CachedEntry.rate[2], CachedEntry.rate[1]>>, 2)]>>

\* The rate the fallback table gives for the pair: direct, else inverted.
InTable == AskedPair \in DOMAIN exchange_rates_stub
InTableReversed == AskedReverse \in DOMAIN exchange_rates_stub
TableRate ==
    IF InTable THEN exchange_rates_stub[AskedPair]
    ELSE <<exchange_rates_stub[AskedReverse][2], exchange_rates_stub[AskedReverse][1]>>

C6_FallbackWritesStubEntry ==
    (Looked /\ (~Cached \/ CachedAge > 300) /\ (InTable \/ InTableReversed)) =>
        /\ res.outcome = "ok"
        /\ res.ret # <<>>
        /\ res.ret[1].rate = Format(TableRate, 8)
        /\ AskedPair \in DOMAIN ratesFile.top
        /\ ratesFile.top[AskedPair].rate = TableRate
        /\ ratesFile.top[AskedPair].updated_at.t = now
        /\ "source" \in DOMAIN ratesFile.top[AskedPair]
        /\ ratesFile.top[AskedPair].source = "Stub"
        /\ ratesFile.last_refresh # <<>>
        /\ ratesFile.last_refresh[1].t = now

C8_SameCurrencyIsOne ==
    (Looked /\ AskedFrom = AskedTo /\ AskedFrom \in _CURRENCY_REGISTRY) =>
        /\ res.outcome = "ok"
        /\ res.ret # <<>>
        /\ res.ret[1].rate = [int |-> 1, frac |-> 0]
        /\ ~res.read
        /\ ratesFile = pre.rates

\* C9 as stated, for non-blank codes: when either code is not a registered
\* currency, get_rate fails with CurrencyNotFoundError and leaves the rates
\* file as it was.
C9_UnknownCurrencyRejected ==
    (Looked /\ (get_currency(res.frm) # "ok" \/ get_currency(res.to) # "ok")) =>
        /\ res.outcome = "CurrencyNotFoundError"
        /\ ratesFile = pre.rates

\* C10: with no fresh cached entry and neither the pair nor its inverse in
\* the fallback table, get_rate fails with the rate-unavailable error and the
\* rates file is unchanged.
C10_UnresolvableFailsNoWrite ==
    (Looked /\ ~(Cached /\ CachedAge <= 300) /\ ~InTable /\ ~InTableReversed) =>
        /\ res.outcome = "ValueError"
        /\ res.ret = <<>>
        /\ ratesFile = pre.rates

\* A pair of two registered currencies that the table lacks was asked for,
\* with a rates file on disk.
C10_Witness ==
    /\ Looked /\ ~InTable /\ ~InTableReversed
    /\ AskedFrom # AskedTo
    /\ AskedFrom \in _CURRENCY_REGISTRY /\ AskedTo \in _CURRENCY_REGISTRY
    /\ res.outcome = "ValueError"
    /\ pre.rates.exists
    /\ ratesFile = pre.rates

-----------------------------------------------------------------------------
(* Properties of buy_currency and sell_currency, stated on the call just   *)
(* made by the logged-in user                                              *)

\* buy_currency or sell_currency has just returned or raised.
Traded == pc = "trade_done"

\* The call got as far as the wallets: logged in, a non-blank code, a number
\* above 0 or nan.
TradeValid == Traded /\ trade.at \notin {"login", "currency", "amount"}

TradeCode == Upper(Strip(trade.currency.val))
TradePair == TradeCode \o <<"_">> \o sUSD
TradeReverse == sUSD \o <<"_">> \o TradeCode

\* The wallets of the caller before and after the call.
WalletsIn(portfolios, user_id) ==
    IF \E i \in 1..Len(portfolios) : portfolios[i].user_id = user_id
    THEN portfolios[CHOOSE i \in 1..Len(portfolios) :
                        portfolios[i].user_id = user_id].wallets
    ELSE <<>>
WalletsBefore == WalletsIn(pre.portfolios, trade.user[1].user_id)
WalletsAfter == WalletsIn(portfoliosFile, trade.user[1].user_id)

\* The entry of the traded pair that rates.json held, if any.
PairCached == pre.rates.exists /\ TradePair \in DOMAIN pre.rates.top
PairAge == now - pre.rates.top[TradePair].updated_at.t
PairInTable ==
    \/ TradePair \in DOMAIN exchange_rates_stub
    \/ TradeReverse \in DOMAIN exchange_rates_stub

\* C11 as stated: a buy or sell that reports success has not priced the
\* transaction with a cached rate older than the TTL (300 s), and a buy or
\* sell that gets as far as the price succeeds for a pair that has no cached
\* entry but that the fallback table resolves.
C11_PricedThroughLookup ==
    (TradeValid /\ trade.at \in {"rate", "return"}) =>
        /\ (trade.outcome = "ok" /\ PairCached) => PairAge <= 300
        /\ (~PairCached /\ PairInTable) => trade.outcome = "ok"

\* A sell of a currency the caller holds a wallet of, with a valid amount.
SoldFromWallet ==
    /\ TradeValid
    /\ trade.op = "sell"
    /\ TradeCode \in DOMAIN WalletsBefore

\* An amount as the message shows it: 4 decimals for the crypto codes, 2 for
\* the others.
Shown(code, x) ==
    LET places == IF code \in {sBTC, sETH} THEN 4 ELSE 2
        whole  == x[1] \div x[2]
        digits == ((x[1] % x[2]) * Pow10(places)) \div x[2]
    IN  [nan |-> FALSE, int |-> whole, frac |-> digits, places |-> places]

\* C12 as stated: a sell of more than the wallet balance fails with
\* InsufficientFundsError carrying the available and the required amount
\* (4 decimals for BTC and ETH, 2 otherwise) and leaves the portfolios file
\* as it was; a sell of exactly the balance is not refused for lack of funds
\* and, when it goes through, leaves balance 0.
C12_SellBeyondBalance ==
    SoldFromWallet =>
        LET bal == WalletsBefore[TradeCode]
            amt == trade.amount.val
        IN  /\ Less(bal, amt) =>
                  /\ trade.outcome = "InsufficientFundsError"
                  /\ trade.ret = <<[available |-> Shown(TradeCode, bal),
                                    required  |-> Shown(TradeCode, amt)]>>
                  /\ portfoliosFile = pre.portfolios
            /\ (bal = amt /\ ~IsNaN(amt)) =>
                  /\ trade.at # "funds"
                  /\ trade.outcome = "ok" => WalletsAfter[TradeCode] = Frac(0, 1)


\* C13 as stated: every wallet balance of the portfolios file is a number
\* that is not below 0, after any sequence of login, buy and sell calls,
\* failed ones included.
C13_BalancesNonNegative ==
    \A i \in 1..Len(portfoliosFile) :
        \A code \in DOMAIN portfoliosFile[i].wallets :
            /\ ~IsNaN(portfoliosFile[i].wallets[code])
            /\ portfoliosFile[i].wallets[code][1] >= 0


-----------------------------------------------------------------------------
(* Properties of the stored snapshot across commands *)

\* The pair keys rates.json holds an entry for: at the top level, where
\* get_rate writes them, and under "pairs", where save_snapshot does.
HeldPairs(file) ==
    (DOMAIN file.top) \cup (IF file.pairs = None THEN {} ELSE DOMAIN file.pairs[1])

\* C14 as stated: no step of a get_rate call or of a run_update removes a
\* pair key from the stored snapshot; an entry is only ever overwritten.
C14_EntriesNeverDeleted ==
    [][HeldPairs(ratesFile) \subseteq HeldPairs(ratesFile')]_vars


\* Every entry of a rates document, top-level or under "pairs", has rate > 0.
AllPositive(file) ==
    /\ \A key \in DOMAIN file.top : file.top[key].rate[1] > 0
    /\ file.pairs # None =>
          \A key \in DOMAIN file.pairs[1] : file.pairs[1][key].rate[1] > 0

\* A client of the run answered with a rate that is zero, negative or no
\* number, under a usable key.
SomeRateDropped ==
    \E k \in 1..Len(fetched) :
        /\ fetched[k].answer.kind = "dict"
        /\ \E j \in 1..Len(fetched[k].answer.items) :
              LET item == fetched[k].answer.items[j]
              IN  /\ item[1].type = "str" /\ Strip(item[1].val) # <<>>
                  /\ (item[2].type \notin {"int", "float"} \/ item[2].val[1] <= 0)

-----------------------------------------------------------------------------
(* Properties of the source clients *)

Fetched == pc = "fetch_done"

\* The exchange gave the client nothing to read rates from.
NothingToRead(resp) ==
    \/ resp.transport # "ok"
    \/ resp.status # 200
    \/ resp.body.kind # "object"

\* C16: a client's fetch_rates either raises ApiRequestError or returns a
\* non-empty mapping of positive numbers; it raises on a transport failure, a
\* status other than 200, an unparseable body and a body that is no object.
C16_FailsOrReturnsPositive ==
    Fetched =>
        LET a == fetched[1].answer
        IN  /\ a.kind \in {"ApiRequestError", "dict"}
            /\ a.kind = "dict" =>
                  /\ a.items # <<>>
                  /\ \A j \in 1..Len(a.items) :
                        /\ IsNumber(a.items[j][2])
                        /\ a.items[j][2].val[1] > 0
            /\ NothingToRead(fetched[1].response) => a.kind = "ApiRequestError"


-----------------------------------------------------------------------------
(* Properties of processes sharing the files *)

\* Both commands reported success and wrote the same file, and p wrote it
\* from a content that q had replaced in the meantime.
Overwrote(p, q) ==
    /\ p # q
    /\ procs[p].pc = "done" /\ procs[q].pc = "done"
    /\ procs[p].ok /\ procs[q].ok
    /\ procs[p].wrote /\ procs[q].wrote
    /\ Target(procs[p].cmd) = Target(procs[q].cmd)
    /\ procs[p].stale

\* The file after command c, then command d, one after the other.
Serial(c, d, content) ==
    Run(d, Run(c, content, usersFile, LookedUp, 0).content,
        usersFile, LookedUp, 0).content

\* What the file held before any process wrote it.
Original(target) ==
    IF target = "portfolios" THEN Registered.portfolios ELSE LookedUp

\* The file is what p alone would have left: q's update is not in it, and
\* neither order of the two commands gives this file.
LostUpdate(p, q) ==
    LET target == Target(procs[p].cmd)
    IN  /\ Overwrote(p, q)
        /\ Content(target) =
              Run(procs[p].cmd, Original(target), usersFile, LookedUp, 0).content
        /\ Content(target) # Serial(procs[p].cmd, procs[q].cmd, Original(target))
        /\ Content(target) # Serial(procs[q].cmd, procs[p].cmd, Original(target))

\* C17: with nothing locked, a command that read its file before another
\* command replaced it writes what it computed from the old content: when
\* both report success, the file is the one the later writer computed from
\* what it had read, without the update of the other.
C17_LostUpdate ==
    \A p, q \in DOMAIN procs :
        Overwrote(p, q) =>
            Content(Target(procs[p].cmd)) =
                Run(procs[p].cmd, procs[p].local, usersFile, LookedUp, 0).content

\* An update was lost on each file: of two trades on portfolios.json, and of
\* the refresh under a get_rate fallback write on rates.json.
C17_Witness ==
    /\ \E p, q \in {1, 2} : LostUpdate(p, q)
    /\ LostUpdate(3, 4)


-----------------------------------------------------------------------------
(* Properties of get_rate on stored timestamps *)

\* C18: get_rate never fails because of the spelling of a stored updated_at:
\* an entry with a malformed timestamp is not served and the rate is
\* synthesised again, and an entry with a naive, a "Z" or an offset timestamp
\* is served exactly when its age is within the TTL.
C18_TimestampFormatsTolerated ==
    (Looked /\ Cached) =>
        /\ res.outcome # "TypeError"
        /\ CachedEntry.updated_at.tz = "malformed" =>
              /\ ~ServedFromCache
              /\ res.outcome = "ok" => ratesFile.top[AskedPair].rate = TableRate
        /\ CachedEntry.updated_at.tz # "malformed" =>
              ((CachedAge <= 300) <=> (ServedFromCache /\ ratesFile = pre.rates))


-----------------------------------------------------------------------------
(* Properties of the wallets *)

\* The codes of the wallets each user held before the call are codes of that
\* user's wallets after it.
CodesKept ==
    \A i \in 1..Len(pre.portfolios) :
        DOMAIN pre.portfolios[i].wallets \subseteq
            DOMAIN WalletsIn(portfoliosFile, pre.portfolios[i].user_id)

\* The user had no wallet of the traded currency.
NoWalletYet == TradeValid /\ TradeCode \notin DOMAIN WalletsBefore

\* C19: a buy of a currency the user has no wallet of creates the wallet with
\* the bought amount as its balance; a sell of such a currency fails and
\* leaves the portfolios as they were; and no buy or sell removes a wallet
\* code from a portfolio, a wallet sold down to 0 included.
C19_WalletsCreatedNeverDeleted ==
    Traded =>
        /\ CodesKept
        /\ (NoWalletYet /\ trade.op = "buy") =>
              /\ TradeCode \in DOMAIN WalletsAfter
              /\ WalletsAfter[TradeCode] = trade.amount.val
        /\ (NoWalletYet /\ trade.op = "sell") =>
              /\ trade.outcome # "ok"
              /\ portfoliosFile = pre.portfolios

\* A wallet created by a buy was sold down to 0 and is still there.
C19_Witness ==
    /\ Traded /\ trade.op = "sell" /\ trade.outcome = "ok"
    /\ TradeCode \in DOMAIN WalletsAfter
    /\ WalletsAfter[TradeCode] = Frac(0, 1)
    /\ \E i \in 1..Len(Registered.portfolios) :
          /\ Registered.portfolios[i].user_id = trade.user[1].user_id
          /\ TradeCode \notin DOMAIN Registered.portfolios[i].wallets


-----------------------------------------------------------------------------
(* Properties of the merge, step by step *)

\* The step merges the answer of one client into the snapshot in progress.
MergeStep == pc = "fetching" /\ upd.i <= Len(Clients) /\ upd'.i = upd.i + 1

\* C20: when the answer of a client is merged, an entry the snapshot in
\* progress already holds is replaced only if its timestamp is strictly
\* older than the timestamp of this fetch; with equal timestamps the entry of
\* the earlier client stays as it is.
C20_OverwriteOnlyIfOlder ==
    [][MergeStep =>
          \A key \in DOMAIN upd.pairs_snapshot :
              /\ key \in DOMAIN upd'.pairs_snapshot
              /\ upd'.pairs_snapshot[key] # upd.pairs_snapshot[key] =>
                    upd.pairs_snapshot[key].updated_at.t < now
              /\ upd.pairs_snapshot[key].updated_at.t = now =>
                    upd'.pairs_snapshot[key] = upd.pairs_snapshot[key]]_vars

\* Mid-run, both clients have quoted EUR_USD at different rates, the second a
\* tick after the first, and the slot has gone to the second.
C20_Witness ==
    /\ pc = "fetching"
    /\ Overlap(sEUR_USD)
    /\ RateOf(1, sEUR_USD) # RateOf(2, sEUR_USD)
    /\ fetched[1].now_iso.t < fetched[2].now_iso.t
    /\ upd.pairs_snapshot[sEUR_USD] =
          [rate |-> RateOf(2, sEUR_USD), updated_at |-> fetched[2].now_iso,
           source |-> Clients[2]]


-----------------------------------------------------------------------------
(* Properties of the order of the steps of run_update *)

\* C21: run_update asks every configured client once, in the order of the
\* list, a failure of one not ending the loop; neither file is written while
\* clients remain to be asked; on success save_snapshot is called once, then
\* append_history, and the snapshot returned is the one saved, its
\* last_refresh being the timestamp taken when the loop was over.
C21_ClientsInOrderThenSaveThenAppend ==
    /\ Len(fetched) <= Len(Clients)
    /\ \A k \in 1..Len(fetched) : fetched[k].source = Clients[k]
    /\ pc \in {"saving", "appending", "update_done", "update_failed"} =>
          Len(fetched) = Len(Clients)
    /\ pc = "fetching" =>
          /\ upd.calls = <<>>
          /\ ratesFile = pre.rates
          /\ historyFile = pre.history
    /\ pc = "appending" =>
          /\ upd.calls = <<"save_snapshot">>
          /\ historyFile = pre.history
    /\ pc = "update_done" =>
          /\ upd.calls = <<"save_snapshot", "append_history">>
          /\ upd.ret = upd.snapshot
          /\ ratesFile = save_snapshot(upd.ret[1])
          /\ upd.ret[1].last_refresh = utc_now_iso(now)

\* The first client failed, the second was still asked, a tick later, and
\* the run succeeded with last_refresh later than its start.
C21_Witness ==
    /\ pc = "update_done"
    /\ fetched[1].answer.kind # "dict"
    /\ fetched[1].now_iso.t < fetched[2].now_iso.t
    /\ upd.started_at[1].t < upd.ret[1].last_refresh.t


-----------------------------------------------------------------------------
(* Properties of the history file *)

\* C22: the history only grows at its end: whatever step is taken, the
\* stored history begins with the history stored before, record by record,
\* and the append of a refresh adds exactly the records of that refresh
\* after it.
C22_HistoryAppendOnly ==
    [][/\ Len(historyFile) <= Len(historyFile')
       /\ SubSeq(historyFile', 1, Len(historyFile)) = historyFile
       /\ pc = "appending" =>
             historyFile' = historyFile \o upd.history_records]_vars

\* A second refresh has added its records after those of the first.
C22_Witness ==
    /\ pc = "update_done"
    /\ pre.history # <<>>
    /\ Len(historyFile) > Len(pre.history)
    /\ SubSeq(historyFile, 1, Len(pre.history)) = pre.history


-----------------------------------------------------------------------------
(* Properties of the entry the fallback writes *)

\* The call has synthesised a rate and written it.
FellBack == Looked /\ res.outcome = "ok" /\ ratesFile # pre.rates

\* C23: the entry the get_rate fallback writes is stored like an entry of
\* the Updater: in the "pairs" mapping, under FROM_TO, with the three fields
\* rate, updated_at and source, the source being "Stub".
C23_FallbackEntryLikeUpdaterEntry ==
    FellBack =>
        /\ ratesFile.pairs # None
        /\ AskedPair \in DOMAIN ratesFile.pairs[1]
        /\ DOMAIN ratesFile.pairs[1][AskedPair] = {"rate", "updated_at", "source"}
        /\ ratesFile.pairs[1][AskedPair].source = "Stub"


-----------------------------------------------------------------------------
(* Properties of a lookup after a refresh *)

\* The snapshot a refresh has saved holds an entry for the pair asked for.
Refreshed ==
    /\ Looked
    /\ pre.rates.pairs # None
    /\ AskedPair \in DOMAIN pre.rates.pairs[1]
RefreshedEntry == pre.rates.pairs[1][AskedPair]

\* C24: when a refresh has stored an entry for the pair and the entry is
\* within the TTL, get_rate answers with the rate of that entry and writes
\* nothing.
C24_LookupServesRefreshedRate ==
    (Refreshed /\ now - RefreshedEntry.updated_at.t <= 300) =>
        /\ res.outcome = "ok"
        /\ res.ret[1].rate = Format(RefreshedEntry.rate, 8)
        /\ ratesFile = pre.rates


-----------------------------------------------------------------------------
(* Properties of a buy that fails *)

BuyFailed == Traded /\ trade.op = "buy" /\ trade.outcome # "ok"

\* C25: a buy_currency call that fails, for want of a login, of a usable
\* currency code, of a positive amount or of a rate for the pair, leaves the
\* stored portfolios as they were.
C25_FailedBuyChangesNothing ==
    BuyFailed => portfoliosFile = pre.portfolios


-----------------------------------------------------------------------------
(* Properties of what a successful trade changes *)

TradeOk == Traded /\ trade.outcome = "ok"

\* The balance of a wallet, 0 for a wallet that is not there.
BalanceIn(wallets, code) ==
    IF code \in DOMAIN wallets THEN wallets[code] ELSE Frac(0, 1)

\* The portfolios are the ones before the call, but for the wallets `codes`
\* of the user trading.
OnlyChanged(codes) ==
    /\ Len(portfoliosFile) = Len(pre.portfolios)
    /\ \A i \in 1..Len(portfoliosFile) :
          /\ portfoliosFile[i].user_id = pre.portfolios[i].user_id
          /\ IF portfoliosFile[i].user_id = trade.user[1].user_id
             THEN /\ DOMAIN portfoliosFile[i].wallets \ codes =
                        DOMAIN pre.portfolios[i].wallets \ codes
                  /\ \A c \in DOMAIN pre.portfolios[i].wallets \ codes :
                        portfoliosFile[i].wallets[c] = pre.portfolios[i].wallets[c]
             ELSE portfoliosFile[i] = pre.portfolios[i]

\* C26: a successful buy of amount a of C adds a to the balance of the
\* user's wallet C and changes nothing else in the portfolios; a successful
\* sell of a of C at rate r takes a from wallet C, adds a * r to the user's
\* base wallet when there is one, creates none when there is not, and
\* changes nothing else.
C26_TradeChangesOnlyItsWallets ==
    TradeOk =>
        IF trade.op = "buy"
        THEN /\ OnlyChanged({TradeCode})
             /\ TradeCode \in DOMAIN WalletsAfter
             /\ WalletsAfter[TradeCode] =
                   Add(BalanceIn(WalletsBefore, TradeCode), trade.amount.val)
        ELSE /\ OnlyChanged({TradeCode, sUSD})
             /\ WalletsAfter[TradeCode] =
                   Sub(WalletsBefore[TradeCode], trade.amount.val)
             /\ (sUSD \in DOMAIN WalletsAfter) = (sUSD \in DOMAIN WalletsBefore)
             /\ (sUSD \in DOMAIN WalletsBefore /\ TradeCode # sUSD) =>
                   WalletsAfter[sUSD] =
                       Add(WalletsBefore[sUSD],
                           Mul(trade.amount.val, trade.ret[1].rate))

\* A sale credited the base wallet the user already had.
C26_Witness ==
    /\ TradeOk /\ trade.op = "sell"
    /\ sUSD \in DOMAIN WalletsBefore
    /\ WalletsAfter[sUSD] # WalletsBefore[sUSD]
    /\ WalletsAfter[TradeCode] # WalletsBefore[TradeCode]


-----------------------------------------------------------------------------
(* Properties of the ids of the history records *)

\* No two records of the list have the same id.
IdsDistinct(records) ==
    \A i, j \in 1..Len(records) : i # j => records[i].id # records[j].id

\* C27: no two history records share an id, in the records a run has
\* collected and in the stored history, two records of one pair from two
\* sources in the same run included.
C27_HistoryIdsUnique ==
    /\ IdsDistinct(upd.history_records)
    /\ IdsDistinct(historyFile)


-----------------------------------------------------------------------------
(* Registration on its own: register_user called again and again on files  *)
(* that start empty.                                                        *)

sCarol == <<"c","a","r","o","l">>

\* The usernames and passwords passed to register_user.
RegisterCalls ==
    { <<sAlice, sPass>>,
      <<<<" ">> \o sAlice \o <<" ">>, sWrong>>,
      <<sBob, sPass>>,
      <<<<" ">> \o sBob, sPass>>,
      <<Upper(sAlice), sPass>>,
      <<sCarol, <<"a","b","c">>>>,
      <<sBob, <<>>>>,
      <<<<>>, sPass>>,
      <<<<" ">>, sPass>> }

\* register --username u --password p: the call, with its arguments and its
\* outcome kept in `trade`.
Register ==
    /\ pc = "idle"
    /\ \E c \in RegisterCalls :
          LET r == register_user(c[1], c[2], usersFile, portfoliosFile)
          IN  /\ usersFile' = r.users
              /\ portfoliosFile' = r.portfolios
              /\ trade' = [op |-> "register", username |-> c[1],
                           password |-> c[2], outcome |-> r.outcome]
    /\ pc' = "register_done"
    /\ UNCHANGED <<now, ratesFile, historyFile, res, upd, fetched, pre,
                   current_user, procs>>

InitRegister ==
    /\ now = 0
    /\ ratesFile = NoFile
    /\ historyFile = <<>>
    /\ pc = "idle"
    /\ res = NoResult
    /\ upd = NoUpdate
    /\ fetched = <<>>
    /\ pre = NoPre
    /\ usersFile = <<>>
    /\ portfoliosFile = <<>>
    /\ current_user = None
    /\ trade = NoTrade
    /\ procs = NoProcs

NextRegister ==
    \/ Register
    \/ Prompt

SpecRegister == InitRegister /\ [][NextRegister]_vars

\* The stored users have pairwise distinct usernames and pairwise distinct
\* user_ids, and each has exactly one portfolio record.
UsersConsistent ==
    /\ \A i, j \in 1..Len(usersFile) :
          i # j => /\ usersFile[i].username # usersFile[j].username
                   /\ usersFile[i].user_id # usersFile[j].user_id
    /\ \A i \in 1..Len(usersFile) :
          Cardinality({j \in 1..Len(portfoliosFile) :
                          portfoliosFile[j].user_id = usersFile[i].user_id}) = 1

\* The arguments of the call are among the ones register_user refuses: an
\* empty or blank username, a password shorter than 4, or a username that is
\* taken once trimmed.
Refused(username, password, users) ==
    \/ Strip(username) = <<>>
    \/ Len(password) < 4
    \/ \E i \in 1..Len(users) : users[i].username = Strip(username)

\* A step that is a register_user call either is refused, fails and leaves
\* both files as they were, or succeeds.
RegisterStep ==
    (pc = "idle" /\ pc' = "register_done") =>
        /\ Refused(trade'.username, trade'.password, usersFile)
              <=> trade'.outcome # "ok"
        /\ trade'.outcome # "ok" =>
              /\ usersFile' = usersFile
              /\ portfoliosFile' = portfoliosFile

\* C28: after any sequence of register_user calls the stored usernames are
\* pairwise distinct, the user_ids are pairwise distinct and every stored
\* user has exactly one portfolio record; a call with an empty username, a
\* password shorter than 4 or a username taken after trimming fails and
\* changes neither the users file nor the portfolios file.
C28_RegisterKeepsUsersConsistent ==
    /\ []UsersConsistent
    /\ [][RegisterStep]_vars

\* Three users are stored and a call naming one of them, with blanks around
\* the name, has just failed.
C28_Witness ==
    /\ pc = "register_done"
    /\ trade.op = "register"
    /\ trade.outcome # "ok"
    /\ Len(usersFile) = 3
    /\ Len(portfoliosFile) = 3
    /\ trade.username # Strip(trade.username)
    /\ Len(trade.password) >= 4
    /\ \E i \in 1..Len(usersFile) : usersFile[i].username = Strip(trade.username)


=============================================================================
